---- MODULE Spec2Model ----
(***************************************************************************)
(* Model of software/gpsd/gpsd.py: the dt-overlay reconciler control_uart, *)
(* its parser find_dtoverlay_config, and the main sequence that selects a  *)
(* serial device and launches gpsd.                                        *)
(*                                                                         *)
(* A Python str is a sequence of one-character strings, so that the        *)
(* encoding of line 158 and the decoding of lines 104-107 are computed     *)
(* character by character.  An optional value (None or a value) is the     *)
(* record None or the record Some(v).                                      *)
(***************************************************************************)
EXTENDS Integers, Sequences, FiniteSets, TLC

\* ------------------------------------------------------------------------
\* Bounds of the model
\* ------------------------------------------------------------------------

\* Longest device-scope variable list of the initial remote store.
MaxVars == 2

\* Longest token and largest token set fed to the encoder in SpecCodec.
MaxTokLen == 2

MaxSetSize == 2

\* ------------------------------------------------------------------------
\* Constants of the program
\* ------------------------------------------------------------------------

UART0_DEV == "/dev/ttyAMA0"

ACM_CDC_DEV == "/dev/ttyACM0"

UART_OVERLAY == <<"d", "i", "s", "a", "b", "l", "e", "-", "b", "t">>

BALENA_KEY == "BALENA_HOST_CONFIG_dtoverlay"

RESIN_KEY == "RESIN_HOST_CONFIG_dtoverlay"

\* The names find_dtoverlay_config recognises.
DtOverlayKeys == {BALENA_KEY, RESIN_KEY}

\* The controls control_uart accepts.
Controls == {"enable", "disable"}

None == [none |-> TRUE]

Some(v) == [some |-> v]

\* The double quote character.
DQ == "\""

\* ------------------------------------------------------------------------
\* Strings
\* ------------------------------------------------------------------------

\* str.startswith('"') and str.endswith('"')
IsQuoted(value) == Len(value) > 0 /\ value[1] = DQ /\ value[Len(value)] = DQ

DigitChars == <<"0", "1", "2", "3", "4", "5", "6", "7", "8", "9">>

\* str(n) of a natural number
RECURSIVE Str(_)
Str(n) ==
    IF n < 10 THEN <<DigitChars[n + 1]>>
    ELSE Str(n \div 10) \o <<DigitChars[(n % 10) + 1]>>

\* json.loads("[" + value + "]") on strings whose characters outside a JSON
\* string are double quotes and commas and whose characters inside one are
\* neither backslashes nor control characters.  Scanning starts after the
\* opening bracket; mode is what the decoder expects next:
\*   "first"  a value or the closing bracket     "value"  a value
\*   "string" the rest of a string               "after"  a comma or the end
\* The result is Some(list of strings), or None for a JSONDecodeError.
RECURSIVE JsonScan(_, _, _, _, _)
JsonScan(value, i, mode, cur, items) ==
    IF i > Len(value)
    THEN IF mode \in {"first", "after"} THEN Some(items) ELSE None
    ELSE LET c == value[i] IN
         CASE mode = "string" ->
                  IF c = DQ
                  THEN JsonScan(value, i + 1, "after", <<>>, Append(items, cur))
                  ELSE JsonScan(value, i + 1, "string", Append(cur, c), items)
           [] mode \in {"first", "value"} ->
                  IF c = DQ
                  THEN JsonScan(value, i + 1, "string", <<>>, items)
                  ELSE None
           [] mode = "after" ->
                  IF c = ","
                  THEN JsonScan(value, i + 1, "value", <<>>, items)
                  ELSE None

JsonLoadsList(value) == JsonScan(value, 1, "first", <<>>, <<>>)

\* set(list)
ToSet(list) == {list[i] : i \in 1..Len(list)}

\* Lines 104-107: the overlay set a variable's value stands for; None when
\* json.loads raises.
DecodeValue(value) ==
    IF IsQuoted(value)
    THEN LET parsed == JsonLoadsList(value)
         IN  IF parsed = None THEN None ELSE Some(ToSet(parsed.some))
    ELSE Some({value})

\* f'"{dt_overlay}"'
QuoteToken(tok) == <<DQ>> \o tok \o <<DQ>>

\* ','.join(parts)
RECURSIVE JoinComma(_)
JoinComma(parts) ==
    IF parts = <<>> THEN <<>>
    ELSE IF Len(parts) = 1 THEN parts[1]
    ELSE parts[1] \o <<",">> \o JoinComma(Tail(parts))

\* [f'"{t}"' for t in order if t]
RECURSIVE QuotedNonEmpty(_)
QuotedNonEmpty(order) ==
    IF order = <<>> THEN <<>>
    ELSE IF order[1] = <<>> THEN QuotedNonEmpty(Tail(order))
    ELSE <<QuoteToken(order[1])>> \o QuotedNonEmpty(Tail(order))

\* An encoder that leaves the quotes out.
EncodeUnquoted(order) == JoinComma(SelectSeq(order, LAMBDA t : t # <<>>))

\* Line 158, for one iteration order of the set.
EncodeOverlays(order) == JoinComma(QuotedNonEmpty(order))

\* The orders in which iterating a Python set can yield its elements.
IterationOrders(S) ==
    {o \in [1..Cardinality(S) -> S] : \A i, j \in 1..Cardinality(S) : o[i] = o[j] => i = j}

\* ------------------------------------------------------------------------
\* find_dtoverlay_config
\* ------------------------------------------------------------------------

\* A loop body that keeps the first match instead of the last.
FindStepFirstWins(acc, variable) ==
    IF acc.raised \/ variable.name \notin DtOverlayKeys \/ acc.id # None THEN acc
    ELSE LET d == DecodeValue(variable.value)
         IN  IF d = None
             THEN [raised |-> TRUE, overlay |-> acc.overlay, id |-> Some(Str(variable.id))]
             ELSE [raised |-> FALSE, overlay |-> d, id |-> Some(Str(variable.id))]

\* One iteration of the loop of lines 100-107 on the result so far.
FindStep(acc, variable) ==
    IF acc.raised \/ variable.name \notin DtOverlayKeys THEN acc
    ELSE LET d == DecodeValue(variable.value)
         IN  IF d = None
             THEN [raised |-> TRUE, overlay |-> acc.overlay, id |-> Some(Str(variable.id))]
             ELSE [raised |-> FALSE, overlay |-> d, id |-> Some(Str(variable.id))]

RECURSIVE FindLoop(_, _)
FindLoop(acc, variable_list) ==
    IF variable_list = <<>> THEN acc
    ELSE FindLoop(FindStep(acc, variable_list[1]), Tail(variable_list))

\* Lines 92-109: [raised, overlay, id]; raised when json.loads raised.
find_dtoverlay_config(variable_list) ==
    FindLoop([raised |-> FALSE, overlay |-> None, id |-> None], variable_list)

\* ------------------------------------------------------------------------
\* State
\* ------------------------------------------------------------------------

VARIABLES
    deviceVars,            \* remote store: the device's variables [id, name, value]
    appVars,               \* remote store: the application's variables
    appVarsAtStart,        \* history: appVars in the initial state
    pc,                    \* position of the process in the main sequence
    exc,                   \* exception raised in this run ("none" when none)
    gps_serial_dev,        \* line 189/193: None or Some(path)
    control,               \* argument of control_uart ("none" before the call)
    device_dt_overlays,    \* line 132
    dt_overlay_var_id,     \* line 132
    app_dt_overlays,       \* line 137
    device_overlay_exists, \* line 140
    current_dt_overlays,   \* lines 143-147
    new_dt_overlay,        \* lines 150-152: None before, Some(set) after
    dt_overlay_string,     \* line 158: None before, Some(string) after
    calls,                 \* remote calls this run has issued, in order
    consoleDisabled,       \* disable_dev_console has completed in this run
    gpsdLaunches,          \* gpsd processes this run has started
    gpsdDev,               \* device path of the gpsd command line
    prev                   \* the previous run's control_uart call

vars ==
    <<deviceVars, appVars, appVarsAtStart, pc, exc, gps_serial_dev, control, device_dt_overlays,
      dt_overlay_var_id, app_dt_overlays, device_overlay_exists,
      current_dt_overlays, new_dt_overlay, dt_overlay_string, calls,
      consoleDisabled, gpsdLaunches, gpsdDev, prev>>

storeVars == <<deviceVars, appVars, appVarsAtStart>>

localVars ==
    <<control, device_dt_overlays, dt_overlay_var_id, app_dt_overlays,
      device_overlay_exists, current_dt_overlays, new_dt_overlay,
      dt_overlay_string>>

mainVars == <<consoleDisabled, gpsdLaunches, gpsdDev>>

\* Positions inside control_uart.
InControlUart == {"cu_login", "cu_device", "cu_app", "cu_compute", "cu_write"}

\* ------------------------------------------------------------------------
\* The remote store the process starts with
\* ------------------------------------------------------------------------

\* A second overlay name.
OTHER_OVERLAY == <<"v", "c", "4">>

\* Values a dtoverlay variable holds: a bare token, a quoted list, or empty.
OverlayValues ==
    { UART_OVERLAY,
      OTHER_OVERLAY,
      QuoteToken(UART_OVERLAY),
      QuoteToken(OTHER_OVERLAY) \o <<",">> \o QuoteToken(UART_OVERLAY),
      <<>> }

\* Name and value of a variable: a dtoverlay variable or an unrelated one.
VarChoices ==
    (DtOverlayKeys \X OverlayValues) \cup {<<"GPS_CUSTOM_BAUD", <<"9", "6", "0", "0">>>>}

\* Variable lists of n entries; the ids are distinct: 9, 10, ...
VarLists(n) ==
    { [i \in 1..n |-> [id |-> 8 + i, name |-> f[i][1], value |-> f[i][2]]] :
        f \in [1..n -> VarChoices] }

DeviceStores == UNION {VarLists(n) : n \in 0..MaxVars}

AppStores ==
    { <<>>,
      <<[id |-> 9, name |-> BALENA_KEY, value |-> UART_OVERLAY]>>,
      <<[id |-> 9, name |-> RESIN_KEY,
         value |-> QuoteToken(OTHER_OVERLAY) \o <<",">> \o QuoteToken(UART_OVERLAY)]>>,
      <<[id |-> 9, name |-> BALENA_KEY, value |-> OTHER_OVERLAY]>>,
      <<[id |-> 9, name |-> "GPS_CUSTOM_BAUD", value |-> <<"9", "6", "0", "0">>]>> }

NoPrev == [control |-> "none", returned |-> FALSE, current |-> None, wrote |-> FALSE]

\* The state of a process that has just started.
Fresh ==
    /\ pc = "detect"
    /\ exc = "none"
    /\ gps_serial_dev = None
    /\ control = "none"
    /\ device_dt_overlays = None
    /\ dt_overlay_var_id = None
    /\ app_dt_overlays = None
    /\ device_overlay_exists = FALSE
    /\ current_dt_overlays = None
    /\ new_dt_overlay = None
    /\ dt_overlay_string = None
    /\ calls = <<>>
    /\ consoleDisabled = FALSE
    /\ gpsdLaunches = 0
    /\ gpsdDev = None

Init ==
    /\ deviceVars \in DeviceStores
    /\ appVars \in AppStores
    /\ appVarsAtStart = appVars
    /\ prev = NoPrev
    /\ Fresh

\* ------------------------------------------------------------------------
\* control_uart
\* ------------------------------------------------------------------------

\* A remote call: the client object, its method, the variable id or name it
\* is given, the value it writes, and whether it succeeded.
Call(api, fn, id, name, value, ok) ==
    [api |-> api, fn |-> fn, id |-> id, name |-> name, value |-> value, ok |-> ok]

IsWrite(call) == call.fn \in {"update", "create", "remove"}

\* A scope choice that lets the application-level set win.
EffectiveCurrentAppFirst(device_set, app_set) ==
    IF app_set # None THEN app_set
    ELSE IF device_set # None THEN device_set
    ELSE None

\* Lines 140-147: the current set, device scope before application scope.
EffectiveCurrent(device_set, app_set) ==
    IF device_set # None THEN device_set
    ELSE IF app_set # None THEN app_set
    ELSE None

\* A computation that adds the overlay whatever the control.
NewDtOverlayAlwaysAdd(ctl, current) == current \cup {UART_OVERLAY}

\* Lines 149-152 on a current set that is not None.
NewDtOverlay(ctl, current) ==
    IF ctl = "enable" THEN current \cup {UART_OVERLAY}
    ELSE current \ {UART_OVERLAY}

\* A test that never skips the write.
SkipWriteNever(new, current) == FALSE

\* Line 154: new_dt_overlay == current_dt_overlays
SkipWrite(new, current) == Some(new) = current

\* A write that lacks the else: the update is followed by a create.
WriteCallsBoth(exists, var_id, value) ==
    IF exists
    THEN << Call("device_config", "update", var_id, None, value, TRUE),
            Call("device_config", "create", None, Some(BALENA_KEY), value, TRUE) >>
    ELSE << Call("device_config", "create", None, Some(BALENA_KEY), value, TRUE) >>

\* Lines 160-166: the remote write calls control_uart issues, in order.
WriteCalls(exists, var_id, value) ==
    IF exists
    THEN << Call("device_config", "update", var_id, None, value, TRUE) >>
    ELSE << Call("device_config", "create", None, Some(BALENA_KEY), value, TRUE) >>

\* The id the store gives a new variable.
NewId(store) ==
    IF store = <<>> THEN 1
    ELSE 1 + (CHOOSE m \in {store[i].id : i \in 1..Len(store)} :
                 \A i \in 1..Len(store) : store[i].id <= m)

\* A variable list after a successful update or create.
StoreAfter(store, call) ==
    IF call.fn = "update"
    THEN [i \in 1..Len(store) |->
             IF Some(Str(store[i].id)) = call.id
             THEN [store[i] EXCEPT !.value = call.value]
             ELSE store[i]]
    ELSE Append(store, [id |-> NewId(store), name |-> call.name.some, value |-> call.value])

\* The stores after the calls of a sequence have succeeded one by one.
RECURSIVE StoresAfter(_, _)
StoresAfter(stores, cs) ==
    IF cs = <<>> THEN stores
    ELSE LET c == cs[1]
             next == IF c.api = "device_config"
                     THEN [stores EXCEPT !.device = StoreAfter(stores.device, c)]
                     ELSE [stores EXCEPT !.app = StoreAfter(stores.app, c)]
         IN  StoresAfter(next, Tail(cs))

\* An exception leaves control_uart and detect_serial_device (line 190).
Raise(e) == exc' = e /\ pc' = "except"

\* Lines 121-128: the control check and the login.
CU_Login ==
    /\ pc = "cu_login"
    /\ IF control \notin Controls
       THEN Raise("ValueError") /\ UNCHANGED calls
       ELSE \E ok \in BOOLEAN :
               /\ calls' = Append(calls, Call("auth", "login_with_token", None, None, <<>>, ok))
               /\ IF ok THEN pc' = "cu_device" /\ UNCHANGED exc
                        ELSE Raise("RemoteError")
    /\ UNCHANGED <<storeVars, localVars, mainVars, gps_serial_dev, prev>>

\* Lines 130-133: the device's variables and their dtoverlay entry.
CU_DeviceVars ==
    /\ pc = "cu_device"
    /\ \E ok \in BOOLEAN :
          /\ calls' = Append(calls, Call("device_config", "get_all", None, None, <<>>, ok))
          /\ LET found == find_dtoverlay_config(deviceVars)
             IN  IF ~ok THEN Raise("RemoteError")
                                /\ UNCHANGED <<device_dt_overlays, dt_overlay_var_id>>
                 ELSE IF found.raised
                 THEN Raise("JSONDecodeError")
                         /\ UNCHANGED <<device_dt_overlays, dt_overlay_var_id>>
                 ELSE /\ device_dt_overlays' = found.overlay
                      /\ dt_overlay_var_id' = found.id
                      /\ pc' = "cu_app"
                      /\ UNCHANGED exc
    /\ UNCHANGED <<storeVars, mainVars, gps_serial_dev, prev, control, app_dt_overlays,
                   device_overlay_exists, current_dt_overlays, new_dt_overlay,
                   dt_overlay_string>>

\* Lines 135-138: the application's variables and their dtoverlay entry.
CU_AppVars ==
    /\ pc = "cu_app"
    /\ \E ok \in BOOLEAN :
          /\ calls' = Append(calls, Call("app_config", "get_all", None, None, <<>>, ok))
          /\ LET found == find_dtoverlay_config(appVars)
             IN  IF ~ok THEN Raise("RemoteError") /\ UNCHANGED app_dt_overlays
                 ELSE IF found.raised
                 THEN Raise("JSONDecodeError") /\ UNCHANGED app_dt_overlays
                 ELSE /\ app_dt_overlays' = found.overlay
                      /\ pc' = "cu_compute"
                      /\ UNCHANGED exc
    /\ UNCHANGED <<storeVars, mainVars, gps_serial_dev, prev, control,
                   device_dt_overlays, dt_overlay_var_id, device_overlay_exists,
                   current_dt_overlays, new_dt_overlay, dt_overlay_string>>

\* Lines 140-156: the current set, the new set, and the skip of the write.
\* The set operators of lines 150 and 152 raise TypeError on None.
CU_Compute ==
    /\ pc = "cu_compute"
    /\ LET current == EffectiveCurrent(device_dt_overlays, app_dt_overlays)
       IN  /\ device_overlay_exists' = (device_dt_overlays # None)
           /\ current_dt_overlays' = current
           /\ IF current = None
              THEN Raise("TypeError") /\ UNCHANGED new_dt_overlay
              ELSE LET new == NewDtOverlay(control, current.some)
                   IN  /\ new_dt_overlay' = Some(new)
                       /\ pc' = IF SkipWrite(new, current) THEN "cu_done" ELSE "cu_write"
                       /\ UNCHANGED exc
    /\ UNCHANGED <<storeVars, mainVars, gps_serial_dev, prev, control, calls,
                   device_dt_overlays, dt_overlay_var_id, app_dt_overlays,
                   dt_overlay_string>>

\* Lines 158-168: the encoding and the write.  The calls before position n
\* succeed; the call at position n, if there is one, fails and raises.
CU_Write ==
    /\ pc = "cu_write"
    /\ \E order \in IterationOrders(new_dt_overlay.some) :
          LET value == EncodeOverlays(order)
              ws == WriteCalls(device_overlay_exists, dt_overlay_var_id, value)
          IN  /\ dt_overlay_string' = Some(value)
              /\ \E n \in 1..(Len(ws) + 1) :
                    LET done == SubSeq(ws, 1, n - 1)
                        after == StoresAfter([device |-> deviceVars, app |-> appVars], done)
                    IN  /\ deviceVars' = after.device
                        /\ appVars' = after.app
                        /\ IF n > Len(ws)
                           THEN /\ calls' = calls \o done
                                /\ pc' = "cu_done"
                                /\ UNCHANGED exc
                           ELSE /\ calls' = calls \o done \o <<[ws[n] EXCEPT !.ok = FALSE]>>
                                /\ Raise("RemoteError")
    /\ UNCHANGED <<appVarsAtStart, mainVars, gps_serial_dev, prev, control,
                   device_dt_overlays, dt_overlay_var_id, app_dt_overlays,
                   device_overlay_exists, current_dt_overlays, new_dt_overlay>>

\* ------------------------------------------------------------------------
\* detect_serial_device and the main sequence
\* ------------------------------------------------------------------------

\* Lines 171-185 up to the call of control_uart.  acm is the answer of
\* is_char_device; hw is the outcome of detect_supported_hardware, which
\* raises when the model file cannot be read.
DetectSerialDevice ==
    /\ pc = "detect"
    /\ \E acm \in BOOLEAN, hw \in {"supported", "unsupported", "unreadable"} :
          IF acm
          THEN control' = "disable" /\ pc' = "cu_login" /\ UNCHANGED <<exc, gps_serial_dev>>
          ELSE IF hw = "supported"
          THEN control' = "enable" /\ pc' = "cu_login" /\ UNCHANGED <<exc, gps_serial_dev>>
          ELSE IF hw = "unsupported"
          THEN gps_serial_dev' = None /\ pc' = "check" /\ UNCHANGED <<exc, control>>
          ELSE Raise("OSError") /\ UNCHANGED <<control, gps_serial_dev>>
    /\ UNCHANGED <<storeVars, mainVars, prev, calls, device_dt_overlays,
                   dt_overlay_var_id, app_dt_overlays, device_overlay_exists,
                   current_dt_overlays, new_dt_overlay, dt_overlay_string>>

\* Lines 174 and 182: the device detect_serial_device returns once
\* control_uart has returned.
DetectReturn ==
    /\ pc = "cu_done"
    /\ gps_serial_dev' = Some(IF control = "disable" THEN ACM_CDC_DEV ELSE UART0_DEV)
    /\ pc' = "check"
    /\ UNCHANGED <<storeVars, localVars, mainVars, prev, calls, exc>>

\* A handler that selects no device.
ExceptFallbackNone == None

\* Line 193: the device the exception handler selects.
ExceptFallback == Some(ACM_CDC_DEV)

\* Lines 190-193: the handler of any exception of detect_serial_device.
MainExcept ==
    /\ pc = "except"
    /\ gps_serial_dev' = ExceptFallback
    /\ pc' = "check"
    /\ UNCHANGED <<storeVars, localVars, mainVars, prev, calls, exc>>

\* A test that disables the console for the USB device only.
NeedsConsoleDisableFlipped(dev) == dev = ACM_CDC_DEV

\* Line 200: gps_serial_dev != ACM_CDC_DEV
NeedsConsoleDisable(dev) == dev # ACM_CDC_DEV

\* Lines 195-200: quit without a device, else go on to the console or gpsd.
MainCheck ==
    /\ pc = "check"
    /\ pc' = IF gps_serial_dev = None THEN "exit"
             ELSE IF NeedsConsoleDisable(gps_serial_dev.some) THEN "console"
             ELSE "gpsd"
    /\ UNCHANGED <<storeVars, localVars, mainVars, prev, calls, exc, gps_serial_dev>>

\* Lines 40-90, called at line 201.  Popen raises when the environment
\* holds no DBUS_SYSTEM_BUS_ADDRESS; nothing catches it.
DisableDevConsole ==
    /\ pc = "console"
    /\ \E ok \in BOOLEAN :
          IF ok THEN consoleDisabled' = TRUE /\ pc' = "gpsd"
                ELSE consoleDisabled' = FALSE /\ pc' = "crash"
    /\ UNCHANGED <<storeVars, localVars, prev, calls, exc, gps_serial_dev,
                   gpsdLaunches, gpsdDev>>

\* Lines 203-204: gpsd is started on the selected device.
StartGpsd ==
    /\ pc = "gpsd"
    /\ gpsdLaunches' = gpsdLaunches + 1
    /\ gpsdDev' = gps_serial_dev
    /\ pc' = "wait"
    /\ UNCHANGED <<storeVars, localVars, prev, calls, exc, gps_serial_dev,
                   consoleDisabled>>

\* Lines 205-208: gpsd exits and so does the process.
GpsdWait ==
    /\ pc = "wait"
    /\ pc' = "exit"
    /\ UNCHANGED <<storeVars, localVars, mainVars, prev, calls, exc, gps_serial_dev>>

\* control_uart was called in this run and has returned.
ControlUartReturned ==
    control \in Controls /\ exc = "none" /\ pc \notin InControlUart

\* The process is started again; the remote store is what the last run left.
Restart ==
    /\ pc \in {"exit", "crash"}
    /\ prev' = [control |-> control, returned |-> ControlUartReturned,
                current |-> current_dt_overlays,
                wrote |-> \E i \in 1..Len(calls) : IsWrite(calls[i]) /\ calls[i].ok]
    /\ pc' = "detect"
    /\ exc' = "none"
    /\ gps_serial_dev' = None
    /\ control' = "none"
    /\ device_dt_overlays' = None
    /\ dt_overlay_var_id' = None
    /\ app_dt_overlays' = None
    /\ device_overlay_exists' = FALSE
    /\ current_dt_overlays' = None
    /\ new_dt_overlay' = None
    /\ dt_overlay_string' = None
    /\ calls' = <<>>
    /\ consoleDisabled' = FALSE
    /\ gpsdLaunches' = 0
    /\ gpsdDev' = None
    /\ UNCHANGED storeVars

Next ==
    \/ DetectSerialDevice
    \/ CU_Login
    \/ CU_DeviceVars
    \/ CU_AppVars
    \/ CU_Compute
    \/ CU_Write
    \/ DetectReturn
    \/ MainExcept
    \/ MainCheck
    \/ DisableDevConsole
    \/ StartGpsd
    \/ GpsdWait
    \/ Restart

Spec == Init /\ [][Next]_vars

\* ------------------------------------------------------------------------
\* The encoder and the decoder on their own
\* ------------------------------------------------------------------------

CodecAlphabet == {"a", "1", "-"}

\* The strings over the alphabet of 1 to n characters.
RECURSIVE TokensUpTo(_)
TokensUpTo(n) ==
    IF n = 0 THEN {}
    ELSE TokensUpTo(n - 1) \cup [1..n -> CodecAlphabet]

CodecTokens == TokensUpTo(MaxTokLen)

\* The non-empty sets of at most MaxSetSize tokens.
CodecSets == {ToSet(f) : f \in [1..MaxSetSize -> CodecTokens]}

CodecInit ==
    /\ deviceVars = <<>>
    /\ appVars = <<>>
    /\ appVarsAtStart = <<>>
    /\ prev = NoPrev
    /\ exc = "none"
    /\ gps_serial_dev = None
    /\ control = "none"
    /\ device_dt_overlays = None
    /\ dt_overlay_var_id = None
    /\ app_dt_overlays = None
    /\ device_overlay_exists = FALSE
    /\ current_dt_overlays = None
    /\ dt_overlay_string = None
    /\ calls = <<>>
    /\ consoleDisabled = FALSE
    /\ gpsdLaunches = 0
    /\ gpsdDev = None
    /\ pc = "codec_set"
    /\ new_dt_overlay \in {Some(S) : S \in CodecSets}

\* Line 158 applied to the set, in one of its iteration orders.
CodecEncode ==
    /\ pc = "codec_set"
    /\ \E order \in IterationOrders(new_dt_overlay.some) :
          dt_overlay_string' = Some(EncodeOverlays(order))
    /\ pc' = "codec_encoded"
    /\ UNCHANGED <<storeVars, mainVars, prev, calls, exc, gps_serial_dev, control,
                   device_dt_overlays, dt_overlay_var_id, app_dt_overlays,
                   device_overlay_exists, current_dt_overlays, new_dt_overlay>>

\* Lines 104-107 applied to the encoded string.
CodecDecode ==
    /\ pc = "codec_encoded"
    /\ current_dt_overlays' = DecodeValue(dt_overlay_string.some)
    /\ pc' = "codec_decoded"
    /\ UNCHANGED <<storeVars, mainVars, prev, calls, exc, gps_serial_dev, control,
                   device_dt_overlays, dt_overlay_var_id, app_dt_overlays,
                   device_overlay_exists, new_dt_overlay, dt_overlay_string>>

CodecNext == CodecEncode \/ CodecDecode

SpecCodec == CodecInit /\ [][CodecNext]_vars

\* ------------------------------------------------------------------------
\* Properties
\* ------------------------------------------------------------------------

\* The write calls this run has issued.
WriteIndexes == {i \in 1..Len(calls) : IsWrite(calls[i])}

\* The requested change applied to a set.
Requested(ctl, S) ==
    IF ctl = "enable" THEN S \cup {UART_OVERLAY} ELSE S \ {UART_OVERLAY}

\* The set control_uart has read: the device's if there is one, else the
\* application's.
EffectiveSet == IF device_dt_overlays # None THEN device_dt_overlays ELSE app_dt_overlays

\* Positions from which the store is still as control_uart has read it.
AfterDeviceRead == {"cu_app", "cu_compute", "cu_write"}

\* The positions of the dtoverlay entries of a variable list.
Matches(variable_list) ==
    {i \in 1..Len(variable_list) : variable_list[i].name \in DtOverlayKeys}

\* The last of them.
LastMatch(variable_list) ==
    CHOOSE i \in Matches(variable_list) : \A j \in Matches(variable_list) : j <= i

\* The encodings of a set of non-empty tokens: quoted tokens joined by commas.
Encodings(S) ==
    {JoinComma([i \in 1..Len(o) |-> QuoteToken(o[i])]) : o \in IterationOrders(S)}

\* C1: write-skip.  When the requested enable or disable leaves the
\* effective current set as it is, control_uart issues no update and no
\* create, and never reaches the write.
C1_WriteSkip ==
    (/\ control \in Controls
     /\ EffectiveSet # None
     /\ Requested(control, EffectiveSet.some) = EffectiveSet.some)
    => (WriteIndexes = {} /\ pc # "cu_write")

\* An enable on a device variable that holds the overlay has returned
\* without a write.
C1_Witness ==
    /\ pc = "cu_done"
    /\ control = "enable"
    /\ device_dt_overlays = Some({UART_OVERLAY})
    /\ WriteIndexes = {}

\* C2: scope precedence and application immutability.  A device-level
\* dtoverlay variable, when the device has one, is found and its set is the
\* current set; every write is a create or an update of a device variable;
\* the application's variables are what they were initially.
C2_ScopePrecedence ==
    /\ pc \in AfterDeviceRead =>
          ((device_dt_overlays # None) <=> (Matches(deviceVars) # {}))
    /\ (current_dt_overlays # None /\ device_dt_overlays # None) =>
          (current_dt_overlays = device_dt_overlays /\ device_overlay_exists)
    /\ \A i \in WriteIndexes :
          calls[i].api = "device_config" /\ calls[i].fn \in {"update", "create"}
    /\ appVars = appVarsAtStart

\* Both scopes hold a set, the sets differ, and a write has succeeded.
C2_Witness ==
    /\ pc = "cu_done"
    /\ device_dt_overlays # None
    /\ app_dt_overlays # None
    /\ device_dt_overlays # app_dt_overlays
    /\ \E i \in WriteIndexes : calls[i].ok

\* C3: at most one write call per invocation, and no retry.  A failed
\* remote call is the last call of the run, and it leaves control_uart with
\* the exception raised.
C3_OneWriteNoRetry ==
    /\ Cardinality(WriteIndexes) <= 1
    /\ \A i \in 1..Len(calls) : ~calls[i].ok =>
          /\ i = Len(calls)
          /\ exc = "RemoteError"
          /\ pc \notin InControlUart \cup {"cu_done"}

\* A write has failed and the run has ended.
C3_Witness ==
    /\ pc = "exit"
    /\ \E i \in WriteIndexes : ~calls[i].ok

\* C4: with no dtoverlay variable in either scope, control_uart("enable")
\* that meets no remote failure creates BALENA_HOST_CONFIG_dtoverlay with the
\* encoded overlay.
C4_CreateFromNone ==
    (/\ control = "enable"
     /\ pc \notin InControlUart
     /\ exc \notin {"RemoteError", "JSONDecodeError"}
     /\ device_dt_overlays = None
     /\ app_dt_overlays = None)
    => \E i \in WriteIndexes :
          /\ calls[i].fn = "create"
          /\ calls[i].name = Some(BALENA_KEY)
          /\ calls[i].value = QuoteToken(UART_OVERLAY)

\* C5: idempotence across runs.  After an enable that returned on a current
\* set that was not None, the next enable that reads the store finds nothing
\* to change: it returns without a write.
C5_EnableTwice ==
    (/\ prev.control = "enable"
     /\ prev.returned
     /\ prev.current # None
     /\ prev.current.some # {}
     /\ control = "enable"
     /\ pc \notin InControlUart \ {"cu_write"}
     /\ exc # "RemoteError")
    => /\ pc # "cu_write"
       /\ exc = "none"
       /\ new_dt_overlay = current_dt_overlays
       /\ WriteIndexes = {}

\* The first enable wrote, and the second has returned.
C5_Witness ==
    /\ prev.control = "enable"
    /\ prev.returned
    /\ prev.wrote
    /\ control = "enable"
    /\ pc = "cu_done"
    /\ WriteIndexes = {}

\* C6: a failure of the remote client does not end the process.  The handler
\* selects /dev/ttyACM0, the console is left alone, and when the run is past
\* the launch, gpsd has been started on /dev/ttyACM0.
C6_RemoteFailureFallback ==
    exc = "RemoteError" =>
       /\ pc \notin {"crash", "console"}
       /\ ~consoleDisabled
       /\ pc \in {"check", "gpsd", "wait", "exit"} => gps_serial_dev = Some("/dev/ttyACM0")
       /\ pc \in {"wait", "exit"} => (gpsdLaunches = 1 /\ gpsdDev = Some("/dev/ttyACM0"))

\* gpsd runs on /dev/ttyACM0 after a create has failed.
C6_Witness ==
    /\ exc = "RemoteError"
    /\ pc = "wait"
    /\ gpsdDev = Some("/dev/ttyACM0")
    /\ \E i \in WriteIndexes : calls[i].fn = "create" /\ ~calls[i].ok

\* C7: a disable on an existing device variable updates that variable with
\* the encoding of its non-empty tokens minus the overlay; from
\* {disable-bt, vc4} the value written is "vc4" in quotes and nothing else.
C7_DisableUpdates ==
    (control = "disable" /\ device_dt_overlays # None) =>
       \A i \in WriteIndexes :
          /\ calls[i].fn = "update"
          /\ calls[i].id = Some(Str(deviceVars[LastMatch(deviceVars)].id))
          /\ calls[i].value \in
                Encodings((device_dt_overlays.some \ {UART_OVERLAY}) \ {<<>>})
          /\ device_dt_overlays.some = {UART_OVERLAY, OTHER_OVERLAY} =>
                calls[i].value = <<DQ, "v", "c", "4", DQ>>

\* The update of {disable-bt, vc4} to "vc4" has succeeded.
C7_Witness ==
    /\ pc = "cu_done"
    /\ control = "disable"
    /\ device_dt_overlays = Some({UART_OVERLAY, OTHER_OVERLAY})
    /\ \E i \in WriteIndexes :
          calls[i].ok /\ calls[i].fn = "update" /\ calls[i].value = <<DQ, "v", "c", "4", DQ>>

\* C8: scan-order precedence.  find_dtoverlay_config returns the decoded set
\* and the id of the last dtoverlay entry of the list (None and None when
\* there is no entry), and an update is given that id.
C8_LastMatchWins ==
    /\ pc \in AfterDeviceRead =>
          IF Matches(deviceVars) = {}
          THEN device_dt_overlays = None /\ dt_overlay_var_id = None
          ELSE /\ device_dt_overlays = DecodeValue(deviceVars[LastMatch(deviceVars)].value)
               /\ dt_overlay_var_id = Some(Str(deviceVars[LastMatch(deviceVars)].id))
    /\ pc \in {"cu_compute", "cu_write"} =>
          IF Matches(appVars) = {}
          THEN app_dt_overlays = None
          ELSE app_dt_overlays = DecodeValue(appVars[LastMatch(appVars)].value)
    /\ \A i \in WriteIndexes : calls[i].fn = "update" =>
          calls[i].id = Some(Str(deviceVars[LastMatch(deviceVars)].id))

\* Two dtoverlay entries with different ids; the update went to the second,
\* the first still holds another value.
C8_Witness ==
    /\ pc = "cu_done"
    /\ Len(deviceVars) = 2
    /\ Matches(deviceVars) = {1, 2}
    /\ deviceVars[1].id # deviceVars[2].id
    /\ \E i \in WriteIndexes :
          /\ calls[i].ok
          /\ calls[i].fn = "update"
          /\ calls[i].id = Some(Str(deviceVars[2].id))
          /\ deviceVars[2].value = calls[i].value
          /\ deviceVars[1].value # calls[i].value

\* C9: decoding the encoding of a non-empty set of alphanumeric-hyphen
\* tokens gives the set back, whatever the order the encoder iterated in.
C9_RoundTrip ==
    pc = "codec_decoded" => current_dt_overlays = new_dt_overlay

\* A set of two tokens has been encoded and decoded.
C9_Witness ==
    /\ pc = "codec_decoded"
    /\ Cardinality(new_dt_overlay.some) = 2
    /\ current_dt_overlays = new_dt_overlay

\* C10: orchestration ordering.  A run starts gpsd at most once, on the
\* device selected, and never without one; gpsd on /dev/ttyAMA0 comes after
\* disable_dev_console; with /dev/ttyACM0 selected disable_dev_console is
\* neither run nor reached.
C10_Ordering ==
    /\ gpsdLaunches <= 1
    /\ gpsdLaunches = 1 <=> pc \in {"wait", "exit"} /\ gps_serial_dev # None
    /\ gpsdLaunches = 1 => (gpsdDev # None /\ gpsdDev = gps_serial_dev)
    /\ gpsdLaunches = 0 => gpsdDev = None
    /\ gps_serial_dev = None =>
          (~consoleDisabled /\ pc \notin {"console", "gpsd", "wait", "crash"})
    /\ gpsdDev = Some("/dev/ttyAMA0") => consoleDisabled
    /\ gps_serial_dev = Some("/dev/ttyACM0") =>
          (~consoleDisabled /\ pc \notin {"console", "crash"})

\* gpsd runs on /dev/ttyAMA0 with the console disabled.
C10_Witness ==
    /\ pc = "wait"
    /\ gpsdDev = Some("/dev/ttyAMA0")
    /\ consoleDisabled

====
